---- MODULE Spec2Model ----
(***************************************************************************)
(* State-machine model of the inbox-appeals service: the user, profile and *)
(* ticket tables, the repository layer (BaseRepository and its             *)
(* subclasses), the services built on it and the HTTP route handlers that  *)
(* wrap them.  Rows are records, primary keys are small naturals, a null   *)
(* column is Null, and timezone.now() reads the variable clock.            *)
(***************************************************************************)
EXTENDS Naturals, Integers, FiniteSets, Sequences, TLC

\* ------------------------------------------------------------- bounds
MaxTickets == 1
MaxClock == 2
NumProcs == 2
MaxFake == 2
MaxFakeStaff == 2
\* The clock ticks that make a calendar day.
TicksPerDay == 2

\* --------------------------------------------------- program constants
\* A null column / Python None for ids and timestamps.
Null == 0
\* CitizenProfile.inn = CharField(max_length=32)
InnMaxLen == 32
\* HTTP status codes used by the route handlers.
HTTP_200_OK == 200
HTTP_201_CREATED == 201
HTTP_204_NO_CONTENT == 204
HTTP_400_BAD_REQUEST == 400
HTTP_401_UNAUTHORIZED == 401
HTTP_403_FORBIDDEN == 403
HTTP_404_NOT_FOUND == 404
HTTP_500_INTERNAL_SERVER_ERROR == 500

\* ------------------------------------------------------------- inputs
Emails == {"a@x", "b@x"}
\* Accounts are created with NewPasswords; a login tries any of Passwords.
Passwords == {"secret1", "secret2"}
NewPasswords == {"secret1"}
InnLens == {10, 33}
Texts == {"hello"}
NoComment == "<None>"
Procs == 1..NumProcs

\* models/enums.py
UserRole == {"USER", "STAFF", "ADMIN"}
TicketStatus == {"NEW", "IN_PROGRESS", "RESOLVED", "REJECTED"}
NoStatus == "<None>"

VARIABLES users, profiles, tickets, clock, procs, last

vars == <<users, profiles, tickets, clock, procs, last>>

\* ------------------------------------------------------------ outcomes
\* What a call hands back to its caller: the exception that left it
\* ("none" when it returned), and for a route handler the HTTP response.
Outcome(exc, status, detail) == [exc |-> exc, status |-> status, detail |-> detail]
Returned == Outcome("none", 0, "")
Raised(exc) == Outcome(exc, 0, "")
\* An exception no handler catches leaves the route as a plain 500.
Unhandled(exc) == Outcome(exc, HTTP_500_INTERNAL_SERVER_ERROR, "Internal Server Error")
HTTPException(status, detail) == Outcome("HTTPException", status, detail)
Response(status) == Outcome("none", status, "")

NoToken == [sub |-> Null, role |-> "<None>"]

\* The record of the operation that completed last.
Blank(op) == [op |-> op, p |-> 0, email |-> "", pw |-> "", uid |-> Null, tid |-> Null,
                st |-> NoStatus, cm |-> NoComment, ats |-> FALSE,
                out |-> Returned, ret |-> 0, ids |-> {}, tok |-> NoToken,
                sig |-> "", allowed |-> {}, only_my |-> FALSE, statuses |-> {},
                date_from |-> 0, date_to |-> 0, by_status |-> <<>>, items |-> {}]

\* The record with the fields of f set as f sets them.
With(f, r) == [k \in DOMAIN r |-> IF k \in DOMAIN f THEN f[k] ELSE r[k]]

Idle == [pc |-> "idle", op |-> "", email |-> ""]

\* ------------------------------------------------------------- tables
UserIds == {u.id : u \in users}
TicketIds == {t.id : t \in tickets}
\* The ids of the STAFF accounts.
StaffUserIds == {u.id : u \in {x \in users : x.role = "STAFF"}}

\* uuid4() for a new row: an id no row of the table has.
NewUserId == Cardinality(users) + 1

\* An id that is no row's primary key.
UnknownId == Cardinality(users) + Cardinality(tickets) + 1

UserById(id) == CHOOSE u \in users : u.id = id
TicketById(id) == CHOOSE t \in tickets : t.id = id


\* ------------------------------------------------- repositories/base.py
\* The result of a repository call: the exception that left it, the table
\* afterwards, the affected-row count and the primary key of the row found.
RepoResult(exc, rows, affected, id) == [exc |-> exc, rows |-> rows, affected |-> affected, id |-> id]

\* get_by_id and update_by_id take keyword-only parameters (a bare * in
\* the signature); the key is the parameter named pk.
PkParameter == "pk"

\* Python binds a call's keyword argument to the parameter of that name,
\* and raises TypeError when the function has no such parameter.
BindsKeyword(kw) == kw = PkParameter

\* BaseRepository.get_by_id(*, pk, ...): model.filter(id=pk).first()
get_by_id(rows, kw, key) ==
    IF ~BindsKeyword(kw) THEN RepoResult("TypeError", rows, 0, Null)
    ELSE IF \E r \in rows : r.id = key THEN RepoResult("none", rows, 0, key)
    ELSE RepoResult("none", rows, 0, Null)

\* update_by_id as it would be were the key bound whatever its keyword.
update_by_id_any_keyword(rows, kw, key, values) ==
    RepoResult("none",
               {IF r.id = key THEN With(values, r) ELSE r : r \in rows},
               Cardinality({r \in rows : r.id = key}),
               Null)

\* BaseRepository.update_by_id(*, pk, values, ...):
\* model.filter(id=pk).update(**values), the affected-row count.
update_by_id(rows, kw, key, values) ==
    IF ~BindsKeyword(kw) THEN RepoResult("TypeError", rows, 0, Null)
    ELSE RepoResult("none",
                    {IF r.id = key THEN With(values, r) ELSE r : r \in rows},
                    Cardinality({r \in rows : r.id = key}),
                    Null)

\* BaseRepository.exists(filters={"email": email})
exists(rows, email) == \E r \in rows : r.email = email

\* A transaction block whose writes stay when an exception leaves it.
transaction_without_rollback(before, after, exc) == after

\* BaseRepository.transaction: in_transaction() commits when the block
\* is left normally and rolls everything back when an exception leaves it.
transaction(before, after, exc) == IF exc = "none" THEN after ELSE before

\* ---------------------------------------- repositories/tickets_repository.py
\* TicketRepository.list_by_owner: model.filter(owner_id=owner_id)
list_by_owner(tks, owner_id) == {t.id : t \in {x \in tks : x.owner_id = owner_id}}

\* TicketRepository.list_for_staff_queue: status__in when statuses are
\* given, staff_assignee_id when an assignee is given.
list_for_staff_queue(tks, statuses, assignee_id) ==
    {t.id : t \in {x \in tks : /\ (statuses # {} => x.status \in statuses)
                               /\ (assignee_id # Null => x.staff_assignee_id = assignee_id)}}

\* BaseRepository.bulk_create: the rows are inserted as given, the columns
\* they leave out take the model's defaults.
bulk_create(tks, rows) == tks \cup rows

\* An update that also writes the owner column.
update_status_with_audit_reowning(tks, ticket_id, new_status, staff_uid, staff_comment, assign_to_staff, now) ==
    update_by_id(tks, PkParameter, ticket_id,
                 [status |-> new_status, owner_id |-> staff_uid,
                  last_modified_by_id |-> staff_uid, last_modified_at |-> now])

\* An update that writes the comment and the assignee whether or not they
\* are given.
update_status_with_audit_overwriting(tks, ticket_id, new_status, staff_uid, staff_comment, assign_to_staff, now) ==
    update_by_id(tks, PkParameter, ticket_id,
                 [status |-> new_status,
                  last_modified_by_id |-> staff_uid, last_modified_at |-> now,
                  staff_comment |-> staff_comment, staff_assignee_id |-> assign_to_staff])

\* An update that writes the status and no audit stamp.
update_status_with_audit_unstamped(tks, ticket_id, new_status, staff_uid, staff_comment, assign_to_staff, now) ==
    update_by_id(tks, PkParameter, ticket_id, [status |-> new_status])

\* TicketRepository.update_status_with_audit
update_status_with_audit(tks, ticket_id, new_status, staff_uid, staff_comment, assign_to_staff, now) ==
    LET base == [status |-> new_status,
                 last_modified_by_id |-> staff_uid,
                 last_modified_at |-> now]
        cm == IF staff_comment # NoComment
              THEN [staff_comment |-> staff_comment] ELSE <<>>
        asg == IF assign_to_staff # Null
               THEN [staff_assignee_id |-> assign_to_staff] ELSE <<>>
    IN update_by_id(tks, "id", ticket_id, base @@ cm @@ asg)

\* TicketRepository.assign_to_self_with_audit
assign_to_self_with_audit(tks, ticket_id, staff_uid, now) ==
    update_by_id(tks, "id", ticket_id,
                 [staff_assignee_id |-> staff_uid,
                  last_modified_by_id |-> staff_uid,
                  last_modified_at |-> now])

\* ------------------------------------------------ services/ticket_service.py
\* A new ticket stamped with its owner as the last modifier.
NewTicket_stamped(id, owner_id, text, now) ==
    [id |-> id, owner_id |-> owner_id, text |-> text, status |-> "NEW",
     staff_assignee_id |-> Null, staff_comment |-> NoComment,
     last_modified_by_id |-> owner_id, last_modified_at |-> now,
     created_at |-> now]

\* The row TicketService.create_ticket inserts: owner, text and status NEW
\* are given, every other column takes the model's default.
NewTicket(id, owner_id, text, now) ==
    [id |-> id, owner_id |-> owner_id, text |-> text, status |-> "NEW",
     staff_assignee_id |-> Null, staff_comment |-> NoComment,
     last_modified_by_id |-> Null, last_modified_at |-> Null,
     created_at |-> now]

\* TicketService.create_ticket; the owner column is a foreign key to the
\* user table, so an owner_id that is no user's id is rejected by the store.
create_ticket(tks, us, owner_id, text, now) ==
    LET id == Cardinality(tks) + 1
        exc == IF owner_id \in {u.id : u \in us} THEN "none" ELSE "IntegrityError"
    IN RepoResult(exc, transaction(tks, tks \cup {NewTicket(id, owner_id, text, now)}, exc),
                  0, IF exc = "none" THEN id ELSE Null)

\* TicketService.get_my_ticket
get_my_ticket(tks, owner_id, ticket_id) ==
    LET got == get_by_id(tks, "id", ticket_id)
    IN IF got.exc # "none" THEN got
       ELSE IF got.id = Null \/ TicketById(got.id).owner_id # owner_id
            THEN RepoResult("none", tks, 0, Null)
       ELSE got

\* ------------------------------------------------- services/staff_service.py
\* StaffService.update_ticket
update_ticket(tks, ticket_id, staff_uid, new_status, staff_comment, assign_to_self, now) ==
    LET assign_target == IF assign_to_self THEN staff_uid ELSE Null
    IN IF new_status = NoStatus /\ staff_comment = NoComment /\ assign_target = Null
       THEN RepoResult("none", tks, 0, Null)
       ELSE update_status_with_audit(
                tks, ticket_id,
                IF new_status # NoStatus THEN new_status ELSE "IN_PROGRESS",
                staff_uid, staff_comment, assign_target, now)

\* A queue that lists every status when none is asked for.
list_queue_unfiltered(tks, staff_uid, only_my, statuses) ==
    [exc |-> "none",
     ids |-> list_for_staff_queue(tks, statuses, IF only_my THEN staff_uid ELSE Null)]

\* StaffService.list_queue: statuses or [NEW, IN_PROGRESS]; reading
\* staff_user.id of None raises AttributeError.
list_queue(tks, staff_uid, only_my, statuses) ==
    IF only_my /\ staff_uid = Null THEN [exc |-> "AttributeError", ids |-> {}]
    ELSE [exc |-> "none",
          ids |-> list_for_staff_queue(tks,
                                       IF statuses # {} THEN statuses ELSE {"NEW", "IN_PROGRESS"},
                                       IF only_my THEN staff_uid ELSE Null)]

\* StaffService.get_ticket
get_ticket(tks, ticket_id) == get_by_id(tks, "id", ticket_id)

\* --------------------------------------------- services/analytics_service.py
\* An absent date_from or date_to (None).
NoDate == 0 - 1

\* timedelta(days=1)
OneDay == TicksPerDay

\* The filters both analytics queries build on a timestamp column:
\* column__gte = date_from when date_from is given, column__lt = date_to +
\* timedelta(days=1) when date_to is given.  A null column matches neither.
InWindow(at, date_from, date_to) ==
    /\ (date_from # NoDate => at # Null /\ at >= date_from)
    /\ (date_to # NoDate => at # Null /\ at < date_to + OneDay)

\* An overview whose upper bound is date_to itself.
overview_exclusive_end(tks, date_from, date_to) ==
    LET hit == {t \in tks : /\ (date_from # NoDate => t.created_at >= date_from)
                            /\ (date_to # NoDate => t.created_at < date_to)}
    IN [total |-> Cardinality(hit),
        by_status |-> [q \in TicketStatus |-> Cardinality({t \in hit : t.status = q})]]

\* AnalyticsService.overview: the count of the filtered tickets, and their
\* counts grouped by status with the statuses that have no row set to 0.
overview(tks, date_from, date_to) ==
    LET hit == {t \in tks : InWindow(t.created_at, date_from, date_to)}
        items == {q \in TicketStatus : \E t \in hit : t.status = q}
        grouped == [q \in items |-> Cardinality({t \in hit : t.status = q})]
    IN [total |-> Cardinality(hit),
        by_status |-> [q \in items \cup TicketStatus |->
                          IF q \in items THEN grouped[q] ELSE 0]]

\* The largest of a non-empty set of timestamps.
Max(S) == CHOOSE x \in S : \A y \in S : y <= x

\* One entry of performance_map: the counters of the rows grouped under
\* staff key k, and the latest last_modified_at among them.
PerformanceRecord(rows, k) ==
    LET mine == {t \in rows : t.last_modified_by_id = k}
        stamps == {t.last_modified_at : t \in {x \in mine : x.last_modified_at # Null}}
    IN [staff_id |-> k,
        resolved_count |-> Cardinality({t \in mine : t.status = "RESOLVED"}),
        rejected_count |-> Cardinality({t \in mine : t.status = "REJECTED"}),
        in_progress_count |-> Cardinality({t \in mine : t.status = "IN_PROGRESS"}),
        last_modified_at_max |-> IF stamps = {} THEN Null ELSE Max(stamps)]

\* The rows staff_performance aggregates: last_modified_by_id = staff_id
\* when staff_id is given, last_modified_by_id not null otherwise, within
\* the window on last_modified_at.
PerformanceRows(tks, date_from, date_to, staff_id) ==
    {t \in tks : /\ IF staff_id # Null THEN t.last_modified_by_id = staff_id
                                        ELSE t.last_modified_by_id # Null
                 /\ InWindow(t.last_modified_at, date_from, date_to)}

\* A staff_performance that reports only the staff found in the rows.
staff_performance_without_fill(tks, us, date_from, date_to, staff_id) ==
    LET rows == PerformanceRows(tks, date_from, date_to, staff_id)
    IN {PerformanceRecord(rows, k) : k \in {t.last_modified_by_id : t \in rows}}

\* AnalyticsService.staff_performance: one performance_map entry per
\* staff key of the rows, then a zero entry for every STAFF account that
\* has none.
staff_performance(tks, us, date_from, date_to, staff_id) ==
    LET rows == PerformanceRows(tks, date_from, date_to, staff_id)
        all_staff == {u.id : u \in {x \in us : x.role = "STAFF"}}
    IN {PerformanceRecord(rows, k) : k \in {t.last_modified_by_id : t \in rows} \cup all_staff}

\* -------------------------------------------------------- config/settings.py
\* The fields the Settings class declares; it ignores every other key of
\* the environment (extra="ignore"), so reading an attribute that is not
\* one of these raises AttributeError.
SettingsFields == {"SERVICE_NAME", "DEBUG", "BACKEND_URL", "FRONTEND_URL", "ASYNC_DATABASE_URL"}

settings(name) == IF name \in SettingsFields THEN "none" ELSE "AttributeError"

\* ---------------------------------------------------------- security/jwt.py
\* A token carries its subject and role claims; sig tells whether
\* jwt.decode accepts its signature and expiry.
Token(sub, role, sig) == [sub |-> sub, role |-> role, sig |-> sig]

\* create_access_token(subject, role, expires_minutes): the exception that
\* leaves it ("none" when it returns the signed token).
create_access_token(subject, role) ==
    IF settings("JWT_SECRET_KEY") # "none" THEN settings("JWT_SECRET_KEY")
    ELSE IF settings("JWT_ALGORITHM") # "none" THEN settings("JWT_ALGORITHM")
    ELSE "none"

\* decode_token(token): the exception that leaves it.
decode_token(token) ==
    IF settings("JWT_SECRET_KEY") # "none" THEN settings("JWT_SECRET_KEY")
    ELSE IF settings("JWT_ALGORITHM") # "none" THEN settings("JWT_ALGORITHM")
    ELSE IF token.sig # "valid" THEN "InvalidTokenError"
    ELSE "none"

\* -------------------------------------------------- security/dependencies.py
\* The result of a dependency: the outcome that ends the request (exc
\* "none" when the request goes on) and the (user_id, role) pair.
Current(out, uid, role) == [out |-> out, uid |-> uid, role |-> role]

\* get_current_user
get_current_user(us, token) ==
    IF decode_token(token) # "none" \/ token.role \notin UserRole
    THEN Current(HTTPException(HTTP_401_UNAUTHORIZED, "Invalid token"), Null, "")
    ELSE LET user == get_by_id(us, "id", token.sub)
         IN IF user.exc # "none" THEN Current(Unhandled(user.exc), Null, "")
            ELSE IF user.id = Null
                 THEN Current(HTTPException(HTTP_401_UNAUTHORIZED, "User not found"), Null, "")
            ELSE Current(Returned, token.sub, token.role)

\* require_roles(*allowed_roles)
require_roles(allowed_roles, current) ==
    IF current.out.exc # "none" THEN current
    ELSE IF current.role \notin allowed_roles
         THEN Current(HTTPException(HTTP_403_FORBIDDEN, "Forbidden"), Null, "")
    ELSE current

\* --------------------------------------------------- services/auth_service.py
\* hash_password: a salted one-way digest, kept as what it is a digest of.
hash_password(raw_password) == [scheme |-> "bcrypt", digest_of |-> raw_password]

\* verify_password
verify_password(raw_password, hashed_password) ==
    hashed_password.scheme = "bcrypt" /\ hashed_password.digest_of = raw_password

\* models/user.py: the row of a new account.
NewUser(id, email, password, role) ==
    [id |-> id, email |-> email, password_hash |-> hash_password(password), role |-> role]

\* A create on a table whose email column is not unique.
user_create_without_unique(us, email, password, role) ==
    LET id == Cardinality(us) + 1
    IN RepoResult("none", us \cup {NewUser(id, email, password, role)}, 0, id)

\* user_repo.create: User.email is unique, the store rejects a second row
\* with the same email.
user_create(us, email, password, role) ==
    IF exists(us, email) THEN RepoResult("IntegrityError", us, 0, Null)
    ELSE LET id == Cardinality(us) + 1
         IN RepoResult("none", us \cup {NewUser(id, email, password, role)}, 0, id)

\* profile_repo.create: inn is a CharField(max_length=32) and user a
\* OneToOneField, so a longer inn or a second profile of a user is rejected.
profile_create(ps, user_id, inn) ==
    IF inn > InnMaxLen THEN RepoResult("ValidationError", ps, 0, Null)
    ELSE IF \E q \in ps : q.user_id = user_id THEN RepoResult("IntegrityError", ps, 0, Null)
    ELSE RepoResult("none", ps \cup {[user_id |-> user_id, inn |-> inn]}, 0, user_id)

\* A pre-check that lets every email through.
register_precheck_skipped(us, email) == "none"

\* AuthService.register_user up to its first await: the exists() pre-check.
register_precheck(us, email) ==
    IF exists(us, email) THEN "ValueError" ELSE "none"

\* AuthService.register_user, the transaction block: the user row, then
\* the profile row.
register_insert(us, ps, email, password, inn) ==
    LET u == user_create(us, email, password, "USER")
        q == IF u.exc = "none" THEN profile_create(ps, u.id, inn)
             ELSE RepoResult(u.exc, ps, 0, Null)
    IN [exc |-> q.exc,
        users |-> transaction(us, u.rows, q.exc),
        profiles |-> transaction(ps, q.rows, q.exc),
        id |-> IF q.exc = "none" THEN u.id ELSE Null]

\* A login that tells an unknown email from a wrong password.
login_enumerating(us, email, password) ==
    IF \A u \in us : u.email # email
    THEN [exc |-> "ValueError", detail |-> "User not found", tok |-> NoToken]
    ELSE IF \A u \in {x \in us : x.email = email} : ~verify_password(password, u.password_hash)
         THEN [exc |-> "ValueError", detail |-> "Invalid email or password", tok |-> NoToken]
    ELSE [exc |-> "AttributeError", detail |-> "", tok |-> NoToken]

\* AuthService.login: the exception that leaves it, its message, and the
\* claims of the token in the AccessTokenResponse it returns.
login(us, email, password) ==
    LET found == {u \in us : u.email = email}
    IN IF found = {} \/ \A u \in found : ~verify_password(password, u.password_hash)
       THEN [exc |-> "ValueError", detail |-> "Invalid email or password", tok |-> NoToken]
       ELSE LET user == CHOOSE u \in found : TRUE
                failed == IF settings("JWT_ACCESS_EXPIRES_MINUTES") # "none"
                          THEN settings("JWT_ACCESS_EXPIRES_MINUTES")
                          ELSE create_access_token(user.id, user.role)
            IN IF failed # "none"
               THEN [exc |-> failed, detail |-> "", tok |-> NoToken]
               ELSE [exc |-> "none", detail |-> "",
                     tok |-> [sub |-> user.id, role |-> user.role]]

\* -------------------------------------------------- services/admin_service.py
\* AdminService.create_staff, the transaction block.
create_staff_insert(us, email, password) ==
    LET u == user_create(us, email, password, "STAFF")
    IN [exc |-> u.exc, users |-> transaction(us, u.rows, u.exc), id |-> u.id]

\* ----------------------------------------------------- routers/routes/auth.py
\* The exception classes an "except ValueError" clause catches: ValueError
\* and pydantic's ValidationError, which derives from it.
IsValueError(exc) == exc \in {"ValueError", "pydantic.ValidationError"}

\* schemas/auth.py: AccessTokenResponse(access_token=value); the field is
\* declared str, a value of another type fails validation.
AccessTokenResponse(value_type) ==
    IF value_type = "str" THEN "none" ELSE "pydantic.ValidationError"

\* The register route's try/except around the service call.
register_response(exc, detail) ==
    IF exc = "none" THEN Response(HTTP_201_CREATED)
    ELSE IF IsValueError(exc) THEN HTTPException(HTTP_400_BAD_REQUEST, detail)
    ELSE Unhandled(exc)

\* The login route: the service's AccessTokenResponse is passed as the
\* access_token of a second AccessTokenResponse, inside the try block.
login_route(us, email, password) ==
    LET r == login(us, email, password)
        wrap == AccessTokenResponse("AccessTokenResponse")
    IN IF r.exc = "none" /\ wrap = "none"
       THEN [out |-> Response(HTTP_200_OK), tok |-> r.tok]
       ELSE IF r.exc = "none"
            THEN [out |-> IF IsValueError(wrap)
                          THEN HTTPException(HTTP_401_UNAUTHORIZED, "validation error for AccessTokenResponse")
                          ELSE Unhandled(wrap),
                  tok |-> NoToken]
       ELSE [out |-> IF IsValueError(r.exc)
                     THEN HTTPException(HTTP_401_UNAUTHORIZED, r.detail)
                     ELSE Unhandled(r.exc),
             tok |-> NoToken]

\* --------------------------------------------- routers/routes/tickets_user.py
\* The POST /tickets route: the USER guard, then the service call with the
\* token's subject as owner.
create_ticket_route(tks, us, token, text, now) ==
    LET current == require_roles({"USER"}, get_current_user(us, token))
        r == create_ticket(tks, us, current.uid, text, now)
    IN IF current.out.exc # "none" THEN [out |-> current.out, rows |-> tks, id |-> Null]
       ELSE IF r.exc # "none" THEN [out |-> Unhandled(r.exc), rows |-> tks, id |-> Null]
       ELSE [out |-> Response(HTTP_201_CREATED), rows |-> r.rows, id |-> r.id]

\* -------------------------------------------- routers/routes/tickets_staff.py
\* The PATCH /staff/tickets/{ticket_id} route: the STAFF guard, the
\* lookup of the staff user, the default status and the service call.
update_ticket_route(tks, us, token, ticket_id, status, staff_comment, assign_to_self, now) ==
    LET current == require_roles({"STAFF"}, get_current_user(us, token))
        staff_user == get_by_id(us, "pk", current.uid)
        new_status == IF status # NoStatus THEN status ELSE "IN_PROGRESS"
        r == update_ticket(tks, ticket_id, staff_user.id, new_status,
                           staff_comment, assign_to_self, now)
    IN IF current.out.exc # "none" THEN [out |-> current.out, rows |-> tks]
       ELSE IF staff_user.exc # "none" THEN [out |-> Unhandled(staff_user.exc), rows |-> tks]
       ELSE IF r.exc # "none" THEN [out |-> Unhandled(r.exc), rows |-> tks]
       ELSE IF r.affected = 0
            THEN [out |-> HTTPException(HTTP_400_BAD_REQUEST, "Nothing changed"), rows |-> r.rows]
       ELSE [out |-> Response(HTTP_204_NO_CONTENT), rows |-> r.rows]

\* The GET /staff/tickets/{ticket_id} route: the STAFF guard, the service
\* call, 404 for None.
get_ticket_route(tks, us, token, ticket_id) ==
    LET current == require_roles({"STAFF"}, get_current_user(us, token))
        r == get_ticket(tks, ticket_id)
    IN IF current.out.exc # "none" THEN [out |-> current.out, id |-> Null]
       ELSE IF r.exc # "none" THEN [out |-> Unhandled(r.exc), id |-> Null]
       ELSE IF r.id = Null
            THEN [out |-> HTTPException(HTTP_404_NOT_FOUND, "Ticket not found"), id |-> Null]
       ELSE [out |-> Response(HTTP_200_OK), id |-> r.id]

Init ==
    /\ users = {}
    /\ profiles = {}
    /\ tickets = {}
    /\ clock = 1
    /\ procs = [p \in Procs |-> Idle]
    /\ last = Blank("init")

\* The wall clock advances between requests.
Tick ==
    /\ clock < MaxClock
    /\ clock' = clock + 1
    /\ last' = Blank("tick")
    /\ UNCHANGED <<users, profiles, tickets, procs>>


\* TicketService.create_ticket(owner_id, text), called directly.
CreateTicket(owner_id, text) ==
    /\ Cardinality(tickets) < MaxTickets
    /\ LET r == create_ticket(tickets, users, owner_id, text, clock)
       IN /\ tickets' = r.rows
          /\ last' = With([uid |-> owner_id, tid |-> r.id, out |-> Raised(r.exc)],
                          Blank("create_ticket"))
    /\ UNCHANGED <<users, profiles, clock, procs>>

\* TicketService.list_my_tickets(owner_id), called directly.
ListMyTickets(owner_id) ==
    /\ last' = With([uid |-> owner_id, ids |-> list_by_owner(tickets, owner_id)],
                    Blank("list_my_tickets"))
    /\ UNCHANGED <<users, profiles, tickets, clock, procs>>

\* TicketService.get_my_ticket(owner_id, ticket_id), called directly.
GetMyTicket(owner_id, ticket_id) ==
    /\ LET r == get_my_ticket(tickets, owner_id, ticket_id)
       IN last' = With([uid |-> owner_id, tid |-> ticket_id, ret |-> r.id,
                        out |-> Raised(r.exc)],
                       Blank("get_my_ticket"))
    /\ UNCHANGED <<users, profiles, tickets, clock, procs>>

\* StaffService.update_ticket(...), called directly; staff_user is a User
\* or None (staff_uid = Null).
UpdateTicket(ticket_id, staff_uid, new_status, staff_comment, assign_to_self) ==
    /\ LET r == update_ticket(tickets, ticket_id, staff_uid, new_status,
                              staff_comment, assign_to_self, clock)
       IN /\ tickets' = r.rows
          /\ last' = With([uid |-> staff_uid, tid |-> ticket_id, st |-> new_status,
                           cm |-> staff_comment, ats |-> assign_to_self,
                           ret |-> r.affected, out |-> Raised(r.exc)],
                          Blank("update_ticket"))
    /\ UNCHANGED <<users, profiles, clock, procs>>

\* TicketRepository.assign_to_self_with_audit(ticket_id, staff_user).
AssignToSelf(ticket_id, staff_uid) ==
    /\ LET r == assign_to_self_with_audit(tickets, ticket_id, staff_uid, clock)
       IN /\ tickets' = r.rows
          /\ last' = With([uid |-> staff_uid, tid |-> ticket_id,
                           ret |-> r.affected, out |-> Raised(r.exc)],
                          Blank("assign_to_self"))
    /\ UNCHANGED <<users, profiles, clock, procs>>


\* POST /auth/register as one request that no other request interleaves:
\* the route's try/except around AuthService.register_user.
Register(email, password, inn) ==
    /\ LET pre == register_precheck(users, email)
           r == register_insert(users, profiles, email, password, inn)
       IN IF pre # "none"
          THEN /\ last' = With([email |-> email, pw |-> password, ret |-> inn,
                                out |-> register_response(pre, "Email already registered")],
                               Blank("register"))
               /\ UNCHANGED <<users, profiles>>
          ELSE /\ users' = r.users
               /\ profiles' = r.profiles
               /\ last' = With([email |-> email, pw |-> password, uid |-> r.id, ret |-> inn,
                                out |-> register_response(r.exc, "")],
                               Blank("register"))
    /\ UNCHANGED <<tickets, clock, procs>>

\* AdminService.create_staff(email, password), called directly, as one
\* call that no other request interleaves.
CreateStaff(email, password) ==
    /\ LET pre == register_precheck(users, email)
           r == create_staff_insert(users, email, password)
       IN IF pre # "none"
          THEN /\ last' = With([email |-> email, pw |-> password, out |-> Raised(pre)],
                               Blank("create_staff"))
               /\ UNCHANGED users
          ELSE /\ users' = r.users
               /\ last' = With([email |-> email, pw |-> password, uid |-> r.id,
                                out |-> Raised(r.exc)],
                               Blank("create_staff"))
    /\ UNCHANGED <<profiles, tickets, clock, procs>>

\* POST /auth/register of request p, up to the service's first await: the
\* exists() pre-check.  Other requests run before its transaction block.
RegisterCheck(p, email) ==
    /\ procs[p].pc = "idle"
    /\ LET exc == register_precheck(users, email)
       IN IF exc = "none"
          THEN /\ procs' = [procs EXCEPT ![p] = [pc |-> "insert", op |-> "register",
                                                 email |-> email]]
               /\ last' = With([p |-> p, email |-> email], Blank("register_precheck"))
          ELSE /\ last' = With([p |-> p, email |-> email,
                                out |-> register_response(exc, "Email already registered")],
                               Blank("register"))
               /\ UNCHANGED procs
    /\ UNCHANGED <<users, profiles, tickets, clock>>

\* POST /auth/register of request p, the service's transaction block and
\* the response.
RegisterInsert(p, password, inn) ==
    /\ procs[p].pc = "insert" /\ procs[p].op = "register"
    /\ LET r == register_insert(users, profiles, procs[p].email, password, inn)
       IN /\ users' = r.users
          /\ profiles' = r.profiles
          /\ last' = With([p |-> p, email |-> procs[p].email, pw |-> password,
                           uid |-> r.id, ret |-> inn,
                           out |-> register_response(r.exc, "")],
                          Blank("register"))
    /\ procs' = [procs EXCEPT ![p] = Idle]
    /\ UNCHANGED <<tickets, clock>>

\* AdminService.create_staff of request p, up to its exists() pre-check.
CreateStaffCheck(p, email) ==
    /\ procs[p].pc = "idle"
    /\ LET exc == register_precheck(users, email)
       IN IF exc = "none"
          THEN /\ procs' = [procs EXCEPT ![p] = [pc |-> "insert", op |-> "create_staff",
                                                 email |-> email]]
               /\ last' = With([p |-> p, email |-> email], Blank("create_staff_precheck"))
          ELSE /\ last' = With([p |-> p, email |-> email, out |-> Raised(exc)],
                               Blank("create_staff"))
               /\ UNCHANGED procs
    /\ UNCHANGED <<users, profiles, tickets, clock>>

\* AdminService.create_staff of request p, the transaction block.
CreateStaffInsert(p, password) ==
    /\ procs[p].pc = "insert" /\ procs[p].op = "create_staff"
    /\ LET r == create_staff_insert(users, procs[p].email, password)
       IN /\ users' = r.users
          /\ last' = With([p |-> p, email |-> procs[p].email, pw |-> password,
                           uid |-> r.id, out |-> Raised(r.exc)],
                          Blank("create_staff"))
    /\ procs' = [procs EXCEPT ![p] = Idle]
    /\ UNCHANGED <<profiles, tickets, clock>>

\* POST /auth/login
Login(email, password) ==
    /\ LET r == login_route(users, email, password)
       IN last' = With([email |-> email, pw |-> password, out |-> r.out, tok |-> r.tok],
                       Blank("login"))
    /\ UNCHANGED <<users, profiles, tickets, clock, procs>>

\* POST /tickets with a bearer token and a text.
RoutedCreateTicket(token, text) ==
    /\ Cardinality(tickets) < MaxTickets
    /\ LET r == create_ticket_route(tickets, users, token, text, clock)
       IN /\ tickets' = r.rows
          /\ last' = With([uid |-> token.sub, tid |-> r.id, out |-> r.out,
                           tok |-> [sub |-> token.sub, role |-> token.role],
                           sig |-> token.sig],
                          Blank("routed_create"))
    /\ UNCHANGED <<users, profiles, clock, procs>>

\* PATCH /staff/tickets/{ticket_id} with a bearer token and a body.
RoutedUpdateTicket(token, ticket_id, status, staff_comment, assign_to_self) ==
    /\ LET r == update_ticket_route(tickets, users, token, ticket_id, status,
                                    staff_comment, assign_to_self, clock)
       IN /\ tickets' = r.rows
          /\ last' = With([uid |-> token.sub, tid |-> ticket_id, st |-> status,
                           cm |-> staff_comment, ats |-> assign_to_self, out |-> r.out],
                          Blank("routed_update"))
    /\ UNCHANGED <<users, profiles, clock, procs>>

\* The request bodies of a staff update (status, staff_comment,
\* assign_to_self), absent fields as None.
\* utils/demo/generate_fake_tickets.py, generate_ticket(status): a ticket
\* of a random USER owner; one that is not NEW is assigned to, commented
\* and stamped by a random STAFF user.
generate_ticket(id, owner_id, text, status, staff_uid, now) ==
    IF status = "NEW" THEN NewTicket(id, owner_id, text, now)
    ELSE [NewTicket(id, owner_id, text, now) EXCEPT
             !.status = status,
             !.staff_assignee_id = staff_uid,
             !.staff_comment = "c1",
             !.last_modified_by_id = staff_uid,
             !.last_modified_at = now]

\* The addresses faker.unique.email() hands out.
FakeEmail(kind, n) ==
    IF kind = "staff" THEN <<"staff1@x", "staff2@x", "staff3@x">>[n]
    ELSE <<"user1@x", "user2@x", "user3@x">>[n]

\* utils/demo/generate_fake_users.py, generate_staff_users(count): count
\* STAFF accounts in one bulk_create.
generate_staff_users(us, count) ==
    bulk_create(us, {NewUser(Cardinality(us) + n, FakeEmail("staff", n), "Strong123!", "STAFF")
                        : n \in 1..count})

\* generate_user_with_profiles(count): count USER accounts in one
\* bulk_create, then a profile with a ten-digit inn for each in another.
generate_user_with_profiles(us, ps, count) ==
    LET created == {NewUser(Cardinality(us) + n, FakeEmail("user", n), "Strong123!", "USER")
                       : n \in 1..count}
    IN [users |-> bulk_create(us, created),
        profiles |-> bulk_create(ps, {[user_id |-> u.id, inn |-> 10] : u \in created})]

\* generate_fake_users.main on an empty database: the staff accounts, then
\* the users with their profiles.
GenerateFakeUsers(staff_count, user_count) ==
    /\ users = {}
    /\ LET staff == generate_staff_users(users, staff_count)
           r == generate_user_with_profiles(staff, profiles, user_count)
       IN /\ users' = r.users
          /\ profiles' = r.profiles
    /\ last' = Blank("generate_fake_users")
    /\ UNCHANGED <<tickets, clock, procs>>

\* generate_fake_tickets, one ticket of its batch: it needs a USER and a
\* STAFF account to exist.
GenerateFakeTicket(owner_id, staff_uid, status) ==
    /\ Cardinality(tickets) < MaxFake
    /\ \E u \in users : u.id = owner_id /\ u.role = "USER"
    /\ \E u \in users : u.id = staff_uid /\ u.role = "STAFF"
    /\ tickets' = bulk_create(tickets,
                              {generate_ticket(Cardinality(tickets) + 1, owner_id, "hello",
                                               status, staff_uid, clock)})
    /\ last' = With([uid |-> owner_id, tid |-> Cardinality(tickets) + 1, st |-> status],
                    Blank("generate_fake_tickets"))
    /\ UNCHANGED <<users, profiles, clock, procs>>

\* StaffService.list_queue(staff_user, only_my, statuses), called directly.
ListQueue(staff_uid, only_my, statuses) ==
    /\ LET r == list_queue(tickets, staff_uid, only_my, statuses)
       IN last' = With([uid |-> staff_uid, only_my |-> only_my, statuses |-> statuses,
                        ids |-> r.ids, out |-> Raised(r.exc)],
                       Blank("list_queue"))
    /\ UNCHANGED <<users, profiles, tickets, clock, procs>>

\* AnalyticsService.overview(date_from, date_to), called directly.
Overview(date_from, date_to) ==
    /\ LET r == overview(tickets, date_from, date_to)
       IN last' = With([date_from |-> date_from, date_to |-> date_to,
                        ret |-> r.total, by_status |-> r.by_status],
                       Blank("overview"))
    /\ UNCHANGED <<users, profiles, tickets, clock, procs>>

\* AnalyticsService.staff_performance(date_from, date_to, staff_id), called
\* directly.
StaffPerformance(date_from, date_to, staff_id) ==
    /\ last' = With([date_from |-> date_from, date_to |-> date_to, uid |-> staff_id,
                     items |-> staff_performance(tickets, users, date_from, date_to, staff_id)],
                    Blank("staff_performance"))
    /\ UNCHANGED <<users, profiles, tickets, clock, procs>>

\* A request to a route guarded by require_roles(*allowed_roles), up to the
\* point where the guard hands (user_id, role) to the handler.
GuardedRequest(token, allowed_roles) ==
    /\ LET current == require_roles(allowed_roles, get_current_user(users, token))
       IN last' = With([uid |-> current.uid, out |-> current.out,
                        tok |-> [sub |-> token.sub, role |-> token.role],
                        sig |-> token.sig, allowed |-> allowed_roles],
                       Blank("guarded_request"))
    /\ UNCHANGED <<users, profiles, tickets, clock, procs>>

\* StaffService.get_ticket(ticket_id), called directly.
StaffGetTicket(ticket_id) ==
    /\ LET r == get_ticket(tickets, ticket_id)
       IN last' = With([tid |-> ticket_id, ret |-> r.id, out |-> Raised(r.exc)],
                       Blank("get_ticket"))
    /\ UNCHANGED <<users, profiles, tickets, clock, procs>>

\* GET /staff/tickets/{ticket_id} with a bearer token.
RoutedGetTicket(token, ticket_id) ==
    /\ LET r == get_ticket_route(tickets, users, token, ticket_id)
       IN last' = With([tid |-> ticket_id, ret |-> r.id, out |-> r.out,
                        tok |-> [sub |-> token.sub, role |-> token.role],
                        sig |-> token.sig],
                       Blank("routed_get_ticket"))
    /\ UNCHANGED <<users, profiles, tickets, clock, procs>>

Body(st, cm, ats) == [st |-> st, cm |-> cm, ats |-> ats]
Bodies == {Body(NoStatus, NoComment, FALSE), Body("IN_PROGRESS", "c1", TRUE),
           Body(NoStatus, NoComment, TRUE), Body(NoStatus, "c1", FALSE),
           Body("NEW", NoComment, FALSE), Body("RESOLVED", NoComment, FALSE),
           Body("REJECTED", "c1", FALSE)}

\* The bearer tokens a client presents: one per account, and a forged one.
Tokens == {Token(u.id, u.role, "valid") : u \in users}
          \cup {Token(UnknownId, "STAFF", "forged"), Token(UnknownId, "STAFF", "valid")}

\* The role sets the routes pass to require_roles.
RoleGuards == {{"STAFF"}, {"ADMIN"}}

\* The calls that create accounts and tickets, each running to completion.
Populate ==
    \/ Tick
    \/ \E e \in Emails, w \in NewPasswords, i \in InnLens : Register(e, w, i)
    \/ \E e \in Emails, w \in NewPasswords : CreateStaff(e, w)
    \/ \E o \in UserIds \cup {UnknownId}, x \in Texts : CreateTicket(o, x)

\* The services called directly, each call running to completion.
Next ==
    \/ Populate
    \/ \E o \in UserIds \cup {UnknownId} : ListMyTickets(o)
    \/ \E o \in UserIds \cup {UnknownId}, t \in TicketIds \cup {UnknownId} : GetMyTicket(o, t)
    \/ \E t \in TicketIds \cup {UnknownId}, s \in UserIds \cup {Null}, b \in Bodies :
          UpdateTicket(t, s, b.st, b.cm, b.ats)
    \/ \E t \in TicketIds \cup {UnknownId}, s \in UserIds : AssignToSelf(t, s)

Spec == Init /\ [][Next]_vars

\* The staff update, through its route and as a direct service call, each
\* running to completion.
NextRoutes ==
    \/ Populate
    \/ \E t \in TicketIds \cup {UnknownId}, s \in UserIds \cup {Null}, b \in Bodies :
          UpdateTicket(t, s, b.st, b.cm, b.ats)
    \/ \E k \in Tokens, t \in TicketIds \cup {UnknownId}, b \in Bodies :
          RoutedUpdateTicket(k, t, b.st, b.cm, b.ats)
    \/ \E k \in Tokens, a \in RoleGuards : GuardedRequest(k, a)
    \/ \E t \in TicketIds \cup {UnknownId} : StaffGetTicket(t)
    \/ \E k \in Tokens, t \in TicketIds \cup {UnknownId} : RoutedGetTicket(k, t)
    \/ \E k \in Tokens, x \in Texts : RoutedCreateTicket(k, x)

SpecRoutes == Init /\ [][NextRoutes]_vars

\* The status filters a queue request carries: none, or the closed ones.
StatusFilters == {{}, {"RESOLVED", "REJECTED"}}

\* Demo data: accounts, tickets created by their owners and tickets
\* generated in every status.
PopulateDemo ==
    \/ Populate
    \/ \E o \in UserIds, s \in UserIds, q \in TicketStatus : GenerateFakeTicket(o, s, q)

\* The staff queue over demo data.
NextStaff ==
    \/ PopulateDemo
    \/ \E s \in UserIds, m \in BOOLEAN, f \in StatusFilters : ListQueue(s, m, f)

SpecStaff == Init /\ [][NextStaff]_vars

\* Staff updates of tickets in every status.
NextUpdates ==
    \/ PopulateDemo
    \/ \E t \in TicketIds, s \in UserIds, b \in Bodies :
          UpdateTicket(t, s, b.st, b.cm, b.ats)

SpecUpdates == Init /\ [][NextUpdates]_vars

\* The datetimes an analytics request carries: none, or any instant.
Datetimes == {NoDate} \cup (0..MaxClock)

\* The windows a staff_performance request carries: none, or one day.
DayWindows == {<<NoDate, NoDate>>} \cup {<<d, d>> : d \in {x \in 0..MaxClock : x % TicksPerDay = 0}}

\* Demo data made by the generator scripts alone.
PopulateFake ==
    \/ Tick
    \/ \E n \in 1..MaxFakeStaff : GenerateFakeUsers(n, 1)
    \/ \E o \in UserIds, s \in UserIds, q \in TicketStatus :
          Cardinality(tickets) < MaxTickets /\ GenerateFakeTicket(o, s, q)

\* The admin overview over demo data.
NextOverview ==
    \/ PopulateFake
    \/ \E a \in Datetimes, b \in Datetimes : Overview(a, b)

SpecOverview == Init /\ [][NextOverview]_vars

\* The admin staff-performance report over demo data.
NextPerformance ==
    \/ PopulateFake
    \/ \E w \in DayWindows, s \in UserIds \cup {Null} : StaffPerformance(w[1], w[2], s)

SpecPerformance == Init /\ [][NextPerformance]_vars

\* Staff updates by every STAFF account of demo tickets that are already
\* assigned and commented.
NextFrame ==
    \/ PopulateFake
    \/ \E t \in TicketIds, s \in StaffUserIds, b \in Bodies :
          UpdateTicket(t, s, b.st, b.cm, b.ats)

SpecFrame == Init /\ [][NextFrame]_vars

\* A staff write of request p, up to its statement: the service and the
\* repository have built the values, timezone.now() included, and the
\* UPDATE has not been issued yet.  Other requests run meanwhile.
Pending(op, ticket_id, staff_uid, new_status, staff_comment, assign_to_self, now) ==
    [pc |-> "write", op |-> op, email |-> "", tid |-> ticket_id, uid |-> staff_uid,
     st |-> new_status, cm |-> staff_comment, ats |-> assign_to_self, now |-> now]

\* A staff write of request p that has returned or raised: what is kept
\* of it is the ticket it named and the clock value it read.
Completed(c) ==
    [c EXCEPT !.pc = "done", !.uid = Null, !.st = NoStatus, !.cm = NoComment, !.ats = FALSE]

\* StaffService.update_ticket of request p, up to the update statement:
\* the early return when nothing is supplied, else the values with the
\* clock read in the application.
UpdateTicketStamp(p, ticket_id, staff_uid, new_status, staff_comment, assign_to_self) ==
    /\ procs[p].pc = "idle"
    /\ IF new_status = NoStatus /\ staff_comment = NoComment /\ ~assign_to_self
       THEN /\ procs' = [procs EXCEPT ![p] =
                            Completed(Pending("update_ticket", ticket_id, staff_uid,
                                              new_status, staff_comment, assign_to_self,
                                              clock))]
            /\ last' = With([p |-> p, tid |-> ticket_id], Blank("update_ticket"))
       ELSE /\ procs' = [procs EXCEPT ![p] =
                            Pending("update_ticket", ticket_id, staff_uid, new_status,
                                    staff_comment, assign_to_self, clock)]
            /\ last' = With([p |-> p], Blank("update_ticket_stamp"))
    /\ UNCHANGED <<users, profiles, tickets, clock>>

\* StaffService.update_ticket of request p, the update statement with the
\* values built before, and the return.
UpdateTicketWrite(p) ==
    /\ procs[p].pc = "write" /\ procs[p].op = "update_ticket"
    /\ LET c == procs[p]
           r == update_ticket(tickets, c.tid, c.uid, c.st, c.cm, c.ats, c.now)
       IN /\ tickets' = r.rows
          /\ last' = With([p |-> p, tid |-> c.tid, ret |-> r.affected, out |-> Raised(r.exc)],
                          Blank("update_ticket"))
    /\ procs' = [procs EXCEPT ![p] = Completed(procs[p])]
    /\ UNCHANGED <<users, profiles, clock>>

\* TicketRepository.assign_to_self_with_audit of request p, up to the
\* update statement.
AssignToSelfStamp(p, ticket_id, staff_uid) ==
    /\ procs[p].pc = "idle"
    /\ procs' = [procs EXCEPT ![p] =
                    Pending("assign_to_self", ticket_id, staff_uid, NoStatus, NoComment,
                            TRUE, clock)]
    /\ last' = With([p |-> p], Blank("assign_to_self_stamp"))
    /\ UNCHANGED <<users, profiles, tickets, clock>>

\* TicketRepository.assign_to_self_with_audit of request p, the update
\* statement and the return.
AssignToSelfWrite(p) ==
    /\ procs[p].pc = "write" /\ procs[p].op = "assign_to_self"
    /\ LET c == procs[p]
           r == assign_to_self_with_audit(tickets, c.tid, c.uid, c.now)
       IN /\ tickets' = r.rows
          /\ last' = With([p |-> p, tid |-> c.tid, ret |-> r.affected, out |-> Raised(r.exc)],
                          Blank("assign_to_self"))
    /\ procs' = [procs EXCEPT ![p] = Completed(procs[p])]
    /\ UNCHANGED <<users, profiles, clock>>

\* The two staff requests that race on a ticket.
Racers == {1, 2}

\* The bodies the racing updates carry.
RaceBodies == {Body("RESOLVED", NoComment, FALSE), Body("REJECTED", "c1", TRUE),
               Body(NoStatus, NoComment, FALSE)}

\* Two staff requests racing on the one ticket of the demo data, each
\* suspended between building its values and issuing its update statement.
NextRace ==
    \/ Tick
    \/ \E n \in 1..MaxFakeStaff : GenerateFakeUsers(n, 1)
    \/ \E o \in UserIds, s \in UserIds, q \in TicketStatus :
          tickets = {} /\ GenerateFakeTicket(o, s, q)
    \/ \E p \in Racers, t \in TicketIds, s \in StaffUserIds, b \in RaceBodies :
          UpdateTicketStamp(p, t, s, b.st, b.cm, b.ats)
    \/ \E p \in Racers : UpdateTicketWrite(p)
    \/ \E p \in Racers, t \in TicketIds, s \in StaffUserIds : AssignToSelfStamp(p, t, s)
    \/ \E p \in Racers : AssignToSelfWrite(p)

SpecRace == Init /\ [][NextRace]_vars

\* AnalyticsService.overview of request p, its first query: the count of
\* the filtered tickets.  Other requests run before its second query.
OverviewCount(p, date_from, date_to) ==
    /\ procs[p].pc = "idle"
    /\ procs' = [procs EXCEPT ![p] =
                    [pc |-> "group", op |-> "overview", email |-> "",
                     date_from |-> date_from, date_to |-> date_to,
                     total |-> overview(tickets, date_from, date_to).total]]
    /\ last' = With([p |-> p, date_from |-> date_from, date_to |-> date_to],
                    Blank("overview_count"))
    /\ UNCHANGED <<users, profiles, tickets, clock>>

\* AnalyticsService.overview of request p, its second query: the counts
\* grouped by status, filled with zeros, and the return of both.
OverviewGroup(p) ==
    /\ procs[p].pc = "group" /\ procs[p].op = "overview"
    /\ LET c == procs[p]
       IN last' = With([p |-> p, date_from |-> c.date_from, date_to |-> c.date_to,
                        ret |-> c.total,
                        by_status |-> overview(tickets, c.date_from, c.date_to).by_status],
                       Blank("overview"))
    /\ procs' = [procs EXCEPT ![p] = Idle]
    /\ UNCHANGED <<users, profiles, tickets, clock>>

\* Overview requests among the calls that create accounts and tickets.
NextOverviewRace ==
    \/ Populate
    \/ \E p \in Procs, w \in DayWindows : OverviewCount(p, w[1], w[2])
    \/ \E p \in Procs : OverviewGroup(p)

SpecOverviewRace == Init /\ [][NextOverviewRace]_vars

\* Registration, staff creation and login as concurrent requests: a
\* request suspends at each await, and another request runs meanwhile.
NextAuth ==
    \/ \E p \in Procs, e \in Emails : RegisterCheck(p, e)
    \/ \E p \in Procs, w \in NewPasswords, i \in InnLens : RegisterInsert(p, w, i)
    \/ \E p \in Procs, e \in Emails : CreateStaffCheck(p, e)
    \/ \E p \in Procs, w \in NewPasswords : CreateStaffInsert(p, w)
    \/ \E e \in Emails, w \in Passwords : Login(e, w)

SpecAuth == Init /\ [][NextAuth]_vars
\* ================================================================ claims
StaffIds == {u.id : u \in {x \in users : x.role = "STAFF"}}

\* C1: after any sequence of create_ticket, update_ticket and
\* assign_to_self calls, staff_user None included, every ticket has
\* last_modified_by null exactly when last_modified_at is null.
C1_AuditPairSetTogether ==
    \A t \in tickets : (t.last_modified_by_id = Null) <=> (t.last_modified_at = Null)

\* update_ticket was called with staff_user None and a status on an
\* existing ticket.
C1_Witness ==
    /\ last.op = "update_ticket"
    /\ last.tid \in TicketIds
    /\ last.uid = Null
    /\ last.st # NoStatus

\* C2: immediately after create_ticket(owner_id, text) the new ticket has
\* status NEW, no assignee, no comment, no audit stamp, and owner owner_id.
C2_CreatedTicketIsFresh ==
    (last.op = "create_ticket" /\ last.out.exc = "none") =>
        /\ last.tid \in TicketIds
        /\ LET t == TicketById(last.tid)
           IN /\ t.status = "NEW"
              /\ t.staff_assignee_id = Null
              /\ t.staff_comment = NoComment
              /\ t.last_modified_by_id = Null
              /\ t.last_modified_at = Null
              /\ t.owner_id = last.uid

C2_Witness ==
    /\ last.op = "create_ticket"
    /\ last.out.exc = "none"
    /\ last.uid \in UserIds

\* C3: for a ticket owned by A, get_my_ticket(B, ticket) of another
\* account B yields NotFound, as for an id that is no ticket's, and
\* list_my_tickets(B) does not contain it; get_my_ticket(A, ticket)
\* returns the ticket and list_my_tickets(A) contains it.
C3_OwnershipScoping ==
    /\ (last.op = "get_my_ticket" /\ last.uid \in UserIds) =>
          /\ last.out.exc = "none"
          /\ last.ret = IF last.tid \in TicketIds /\ TicketById(last.tid).owner_id = last.uid
                        THEN last.tid ELSE Null
    /\ (last.op = "list_my_tickets" /\ last.uid \in UserIds) =>
          \A t \in tickets : (t.id \in last.ids) <=> (t.owner_id = last.uid)

\* The owner of an existing ticket asked for it with get_my_ticket.
C3_Witness ==
    /\ last.op = "get_my_ticket"
    /\ last.tid \in TicketIds
    /\ TicketById(last.tid).owner_id = last.uid

\* C4: a staff update of an existing ticket by STAFF user s with status
\* IN_PROGRESS, a comment c and assign_to_self=true affects one row without
\* a fault and leaves status IN_PROGRESS, assignee s, comment c,
\* last_modified_by s and last_modified_at set, not earlier than the call.
C4_StaffUpdateSucceeds ==
    (/\ last.op = "update_ticket"
     /\ last.tid \in TicketIds
     /\ last.uid \in StaffIds
     /\ last.st = "IN_PROGRESS" /\ last.cm = "c1" /\ last.ats) =>
        /\ last.out.exc = "none"
        /\ last.ret = 1
        /\ LET t == TicketById(last.tid)
           IN /\ t.status = "IN_PROGRESS"
              /\ t.staff_assignee_id = last.uid
              /\ t.staff_comment = "c1"
              /\ t.last_modified_by_id = last.uid
              /\ t.last_modified_at # Null
              /\ t.last_modified_at >= clock

\* A STAFF user sent status IN_PROGRESS, a comment and assign_to_self for
\* an existing ticket.
C4_Witness ==
    /\ last.op = "update_ticket"
    /\ last.tid \in TicketIds
    /\ last.uid \in StaffIds
    /\ last.st = "IN_PROGRESS" /\ last.cm = "c1" /\ last.ats

\* The direct half of C5: StaffService.update_ticket with status,
\* staff_comment and assign_to_self all absent returns 0 and changes no
\* ticket.
DirectNoop ==
    [][(last'.op = "update_ticket" /\ last'.st = NoStatus /\ last'.cm = NoComment /\ ~last'.ats) =>
          /\ last'.out.exc = "none"
          /\ last'.ret = 0
          /\ tickets' = tickets]_vars

\* C5: a staff update with status, staff_comment and assign_to_self all
\* absent affects no row, is answered NothingChanged and changes no
\* ticket, as a direct StaffService.update_ticket call and as the staff
\* update route called with an empty body by a STAFF account.
C5_EmptyUpdateIsNothingChanged ==
    [][/\ (last'.op = "update_ticket" /\ last'.st = NoStatus /\ last'.cm = NoComment /\ ~last'.ats) =>
             /\ last'.out.exc = "none"
             /\ last'.ret = 0
             /\ tickets' = tickets
       /\ (/\ last'.op = "routed_update"
           /\ last'.st = NoStatus /\ last'.cm = NoComment /\ ~last'.ats
           /\ last'.uid \in StaffIds
           /\ last'.tid \in TicketIds) =>
             /\ last'.out = HTTPException(HTTP_400_BAD_REQUEST, "Nothing changed")
             /\ tickets' = tickets]_vars
\* A routed staff update with an empty body was sent by a STAFF account
\* for an existing ticket.
C5_Witness ==
    /\ last.op = "routed_update"
    /\ last.st = NoStatus /\ last.cm = NoComment /\ ~last.ats
    /\ last.uid \in StaffIds
    /\ last.tid \in TicketIds

\* C6: register with an email not yet present, and profile fields the
\* store accepts, is answered 201 and adds exactly one user, of role USER,
\* and exactly one profile, referencing that user; register with an email
\* already present is answered 400 "Email already registered" and leaves
\* users and profiles unchanged.
C6_RegisterFreshThenDuplicate ==
    [][(last'.op = "register") =>
          IF exists(users, last'.email)
          THEN /\ last'.out = HTTPException(HTTP_400_BAD_REQUEST, "Email already registered")
               /\ users' = users
               /\ profiles' = profiles
          ELSE (last'.ret <= InnMaxLen) =>
               /\ last'.out = Response(HTTP_201_CREATED)
               /\ \E u \in users' :
                     /\ u \notin users
                     /\ users' = users \cup {u}
                     /\ u.email = last'.email /\ u.role = "USER" /\ u.id = last'.uid
                     /\ \E q \in profiles' :
                           /\ q \notin profiles
                           /\ profiles' = profiles \cup {q}
                           /\ q.user_id = u.id]_vars

\* A register was refused as a duplicate of an account that an earlier
\* register created.
C6_Witness ==
    /\ last.op = "register"
    /\ last.out = HTTPException(HTTP_400_BAD_REQUEST, "Email already registered")
    /\ \E u \in users : u.email = last.email /\ u.role = "USER"
    /\ \E q \in profiles : \E u \in users : u.email = last.email /\ q.user_id = u.id

\* C7: in every reachable state each USER account has exactly one
\* CitizenProfile, and after a register whose profile insert failed no
\* user row of that request is persisted.
C7_RegistrationAllOrNothing ==
    /\ \A u \in users :
          u.role = "USER" => Cardinality({q \in profiles : q.user_id = u.id}) = 1
    /\ (last.op = "register" /\ last.out.exc = "ValidationError") =>
          /\ ~exists(users, last.email)
          /\ last.uid = Null

\* The profile insert of a register failed after its user insert
\* succeeded, while another account exists.
C7_Witness ==
    /\ last.op = "register"
    /\ last.out.exc = "ValidationError"
    /\ users # {}

\* C8: when a register or create_staff call passed the exists() pre-check
\* and its insert is then rejected because another call inserted the same
\* email meanwhile, it fails as a duplicate email: register is answered 400
\* "Email already registered" and create_staff raises ValueError.
C8_RacingDuplicateIsDuplicateEmail ==
    [][(/\ last'.op \in {"register", "create_staff"}
        /\ last'.p \in Procs
        /\ procs[last'.p].pc = "insert"
        /\ exists(users, last'.email)) =>
          IF last'.op = "register"
          THEN last'.out = HTTPException(HTTP_400_BAD_REQUEST, "Email already registered")
          ELSE last'.out = Raised("ValueError")]_vars

\* A register insert was rejected by the unique email constraint.
C8_Witness ==
    /\ last.op = "register"
    /\ last.p \in Procs
    /\ last.out.exc = "IntegrityError"

CredentialsOk(email, password) ==
    \E u \in users : u.email = email /\ verify_password(password, u.password_hash)

\* C9: a login that fails on its credentials is answered 401 "Invalid
\* email or password", the same for an email that is not registered and
\* for a registered email with a wrong password.
C9_LoginFailureIndistinguishable ==
    (last.op = "login" /\ ~CredentialsOk(last.email, last.pw)) =>
        last.out = HTTPException(HTTP_401_UNAUTHORIZED, "Invalid email or password")

\* A login with a registered email and a wrong password, while another
\* email is not registered.
C9_Witness ==
    /\ last.op = "login"
    /\ exists(users, last.email)
    /\ ~CredentialsOk(last.email, last.pw)
    /\ \E e \in Emails : ~exists(users, e)

\* C10: login with a registered user's email and correct password is
\* answered 200 with a token whose subject is that user's id and whose
\* role is that user's stored role.
C10_CorrectLoginReturnsToken ==
    (last.op = "login" /\ CredentialsOk(last.email, last.pw)) =>
        /\ last.out = Response(HTTP_200_OK)
        /\ \E u \in users :
              /\ u.email = last.email
              /\ last.tok = [sub |-> u.id, role |-> u.role]

\* A login with a registered email and its password.
C10_Witness ==
    /\ last.op = "login"
    /\ CredentialsOk(last.email, last.pw)
\* C11: a request to a role-guarded route is answered Unauthorized (401)
\* if its token is badly signed or its subject is no existing user,
\* otherwise Forbidden (403) if the token's role is not among the allowed
\* roles, and otherwise the guard passes (user_id, role) of the token on
\* without rejecting or faulting.
C11_AccessDecision ==
    (last.op = "guarded_request") =>
        IF last.sig # "valid" \/ last.tok.sub \notin UserIds
        THEN last.out.status = HTTP_401_UNAUTHORIZED
        ELSE IF last.tok.role \notin last.allowed
             THEN last.out.status = HTTP_403_FORBIDDEN
        ELSE /\ last.out = Returned
             /\ last.uid = last.tok.sub

\* A STAFF account presented its validly signed token to a route that
\* allows STAFF.
C11_Witness ==
    /\ last.op = "guarded_request"
    /\ last.sig = "valid"
    /\ last.tok.sub \in StaffIds
    /\ last.tok.role \in last.allowed

\* C12: the staff detail view returns every existing ticket, whoever owns
\* it, and NotFound only for an id that is no ticket's: as the service call
\* get_ticket(ticket_id), and as the route called with the valid token of a
\* STAFF or ADMIN account.
C12_StaffDetailView ==
    /\ (last.op = "get_ticket") =>
          /\ last.out.exc = "none"
          /\ last.ret = IF last.tid \in TicketIds THEN last.tid ELSE Null
    /\ (/\ last.op = "routed_get_ticket"
        /\ last.sig = "valid"
        /\ last.tok.sub \in UserIds
        /\ last.tok.role \in {"STAFF", "ADMIN"}) =>
          IF last.tid \in TicketIds
          THEN last.out = Response(HTTP_200_OK) /\ last.ret = last.tid
          ELSE last.out = HTTPException(HTTP_404_NOT_FOUND, "Ticket not found")

\* The staff service was asked for an existing ticket.
C12_Witness ==
    /\ last.op = "get_ticket"
    /\ last.tid \in TicketIds
\* C13: the staff queue asked for without statuses lists exactly the
\* tickets whose status is NEW or IN_PROGRESS, and with only_my exactly
\* those of them assigned to the calling staff user.
C13_DefaultQueue ==
    (last.op = "list_queue" /\ last.statuses = {} /\ last.uid \in UserIds) =>
        /\ last.out.exc = "none"
        /\ \A t \in tickets :
              (t.id \in last.ids) <=>
                  /\ t.status \in {"NEW", "IN_PROGRESS"}
                  /\ (last.only_my => t.staff_assignee_id = last.uid)
        /\ last.ids \subseteq TicketIds

\* A staff user asked for the default only_my queue while an open ticket
\* is assigned to them and a closed ticket exists.
C13_Witness ==
    /\ last.op = "list_queue" /\ last.statuses = {} /\ last.only_my
    /\ \E t \in tickets : t.status = "IN_PROGRESS" /\ t.staff_assignee_id = last.uid
    /\ \E t \in tickets : t.status \in {"RESOLVED", "REJECTED"}
\* The calendar day of an instant, and whether an instant is a day's start.
Day(at) == at \div TicksPerDay
IsDay(at) == at = NoDate \/ at % TicksPerDay = 0
CreatedInDays(date_from, date_to) ==
    {t \in tickets : /\ (date_from # NoDate => Day(t.created_at) >= Day(date_from))
                     /\ (date_to # NoDate => Day(t.created_at) <= Day(date_to))}

\* C14: overview(date_from, date_to) for days date_from and date_to
\* returns as total_created the number of tickets created on a day from
\* date_from to date_to, date_to included, and a by_status mapping with
\* exactly the four status keys, each the number of those tickets in that
\* status, 0 where there is none.
C14_Overview ==
    (last.op = "overview" /\ IsDay(last.date_from) /\ IsDay(last.date_to)) =>
        /\ last.ret = Cardinality(CreatedInDays(last.date_from, last.date_to))
        /\ DOMAIN last.by_status = TicketStatus
        /\ \A q \in TicketStatus :
              last.by_status[q] =
                  Cardinality({t \in CreatedInDays(last.date_from, last.date_to) : t.status = q})

\* overview(D, D) was asked for a day D on which a ticket was created.
C14_Witness ==
    /\ last.op = "overview"
    /\ last.date_from # NoDate /\ last.date_from = last.date_to /\ IsDay(last.date_to)
    /\ last.ret = 1
    /\ \E q \in TicketStatus : last.by_status[q] = 0
\* C15: staff_performance without a staff_id returns exactly one record
\* for every STAFF account, and the record of a STAFF account that is
\* last_modified_by of no ticket modified in the window has three zero
\* counters and no last_modified_at_max.
C15_EveryStaffReported ==
    (last.op = "staff_performance" /\ last.uid = Null) =>
        \A u \in {x \in users : x.role = "STAFF"} :
            /\ Cardinality({r \in last.items : r.staff_id = u.id}) = 1
            /\ (~\E t \in tickets : /\ t.last_modified_by_id = u.id
                                    /\ InWindow(t.last_modified_at, last.date_from, last.date_to)) =>
                  \A r \in {x \in last.items : x.staff_id = u.id} :
                      /\ r.resolved_count = 0
                      /\ r.rejected_count = 0
                      /\ r.in_progress_count = 0
                      /\ r.last_modified_at_max = Null

\* The report was asked for without staff_id while one STAFF account has
\* modified a ticket and another has modified none.
C15_Witness ==
    /\ last.op = "staff_performance" /\ last.uid = Null
    /\ \E u \in users : u.role = "STAFF" /\ \E t \in tickets : t.last_modified_by_id = u.id
    /\ \E u \in users : u.role = "STAFF" /\ ~\E t \in tickets : t.last_modified_by_id = u.id

\* C16: staff_performance with staff_id = s returns records of s only.
C16_StaffFilterRestricts ==
    (last.op = "staff_performance" /\ last.uid # Null) =>
        \A r \in last.items : r.staff_id = last.uid

\* The report was asked for one STAFF account while another exists.
C16_Witness ==
    /\ last.op = "staff_performance"
    /\ last.uid \in StaffIds
    /\ \E u \in StaffIds : u # last.uid
\* C17: no update_ticket or assign_to_self call, nor any other step,
\* changes the owner or the text of a ticket: every ticket keeps the
\* values create_ticket gave it.
C17_OwnerImmutable ==
    [][\A t \in tickets :
          \E n \in tickets' : n.id = t.id /\ n.owner_id = t.owner_id /\ n.text = t.text]_vars

\* A STAFF user called assign_to_self on an existing ticket of another
\* account.
C17_Witness ==
    /\ last.op = "assign_to_self"
    /\ last.tid \in TicketIds
    /\ last.uid \in StaffIds
    /\ TicketById(last.tid).owner_id # last.uid

\* Something to change was supplied to the update.
Supplied(l) == l.st # NoStatus \/ l.cm # NoComment \/ (l.ats /\ l.uid # Null)

\* C18: update_ticket returns 0 and changes no ticket for an id that is no
\* ticket's, which the route answers 400 "Nothing changed", and returns 1
\* for an existing ticket when a status, a comment or assign_to_self is
\* supplied.
C18_AffectedCount ==
    [][/\ (last'.op = "update_ticket" /\ Supplied(last')) =>
             /\ last'.out.exc = "none"
             /\ IF last'.tid \in TicketIds
                THEN last'.ret = 1
                ELSE last'.ret = 0 /\ tickets' = tickets
       /\ (/\ last'.op = "routed_update"
           /\ last'.uid \in StaffIds
           /\ last'.tid \notin TicketIds) =>
             /\ last'.out = HTTPException(HTTP_400_BAD_REQUEST, "Nothing changed")
             /\ tickets' = tickets]_vars

\* update_ticket was called with a status for an id that is no ticket's.
C18_Witness ==
    /\ last.op = "update_ticket"
    /\ last.tid \notin TicketIds
    /\ last.st # NoStatus
    /\ last.uid \in StaffIds

\* C19: create_staff(email, password) raises ValueError "Email already
\* registered" and adds no user when an account of any role has the email;
\* otherwise it adds exactly one account, of role STAFF, and no profile.
C19_CreateStaff ==
    [][(last'.op = "create_staff") =>
          /\ profiles' = profiles
          /\ IF exists(users, last'.email)
             THEN last'.out = Raised("ValueError") /\ users' = users
             ELSE /\ last'.out.exc = "none"
                  /\ \E u \in users' :
                        /\ u \notin users
                        /\ users' = users \cup {u}
                        /\ u.email = last'.email /\ u.role = "STAFF" /\ u.id = last'.uid
                        /\ ~\E q \in profiles' : q.user_id = u.id]_vars

\* create_staff was refused for the email of a USER account.
C19_Witness ==
    /\ last.op = "create_staff"
    /\ last.out = Raised("ValueError")
    /\ \E u \in users : u.email = last.email /\ u.role = "USER"

\* C20: a STAFF update_ticket with new_status q on a ticket in any status
\* p is accepted and leaves the ticket in status q.
C20_AdvisoryStatusMachine ==
    (/\ last.op = "update_ticket"
     /\ last.tid \in TicketIds
     /\ last.uid \in StaffIds
     /\ last.st # NoStatus) =>
        /\ last.out.exc = "none"
        /\ TicketById(last.tid).status = last.st

\* A STAFF user asked to move a RESOLVED ticket to NEW.
C20_Witness ==
    /\ last.op = "update_ticket"
    /\ last.uid \in StaffIds
    /\ last.st = "NEW"
    /\ \E t \in tickets : t.id = last.tid /\ t.status = "RESOLVED"
\* C21: an update_ticket call with no status but with a comment or
\* assign_to_self writes status IN_PROGRESS whatever the ticket's status
\* was, and stamps the ticket with the calling staff user and the time.
C21_DefaultsToInProgress ==
    (/\ last.op = "update_ticket"
     /\ last.tid \in TicketIds
     /\ last.uid \in StaffIds
     /\ last.st = NoStatus
     /\ (last.cm # NoComment \/ last.ats)) =>
        /\ last.out.exc = "none"
        /\ TicketById(last.tid).status = "IN_PROGRESS"
        /\ TicketById(last.tid).last_modified_by_id = last.uid
        /\ TicketById(last.tid).last_modified_at = clock

\* A STAFF user sent only a comment for a RESOLVED ticket.
C21_Witness ==
    /\ last.op = "update_ticket"
    /\ last.uid \in StaffIds
    /\ last.st = NoStatus
    /\ last.cm # NoComment
    /\ ~last.ats
    /\ \E t \in tickets : t.id = last.tid /\ t.status = "RESOLVED"
\* The status and audit stamp the pending call of request p carries.
Carried(p) ==
    [status |-> procs[p].st, last_modified_by_id |-> procs[p].uid,
     last_modified_at |-> procs[p].now]

\* The status and audit stamp of a ticket.
Stamped(t) ==
    [status |-> t.status, last_modified_by_id |-> t.last_modified_by_id,
     last_modified_at |-> t.last_modified_at]

\* Request p issues the statement of an update_ticket call with a status
\* while the other request has an update_ticket call on the same ticket
\* pending or just completed.
RacingWrite(p) ==
    /\ procs[p].pc = "write" /\ procs[p].op = "update_ticket" /\ procs[p].st # NoStatus
    /\ procs'[p].pc = "done"
    /\ \E q \in Racers \ {p} :
          /\ procs[q].op = "update_ticket" /\ procs[q].pc \in {"write", "done"}
          /\ procs[q].tid = procs[p].tid

\* C22: when two staff users' update_ticket calls with statuses race on a
\* ticket, the statement of each call leaves the ticket with status,
\* last_modified_by and last_modified_at all of that call, so the final
\* ticket has all three from the call whose statement ran last, never the
\* status of one call with the stamp of the other.
C22_AtomicStatusAndStamp ==
    [][\A p \in Racers :
          RacingWrite(p) =>
             \E n \in tickets' : n.id = procs[p].tid /\ Stamped(n) = Carried(p)]_vars

\* Two update_ticket calls on one ticket read the clock at the same
\* instant, and both have completed, the statement of request 2 last.
C22_Witness ==
    /\ \A p \in Racers : procs[p].pc = "done" /\ procs[p].op = "update_ticket"
    /\ procs[1].tid = procs[2].tid
    /\ procs[1].now = procs[2].now
    /\ last.op = "update_ticket" /\ last.p = 2 /\ last.out.exc # "none"

\* C23: an update_ticket call changes only the fields it is given: without
\* assign_to_self the ticket's staff_assignee stays as it was, without a
\* comment its staff_comment stays as it was, and staff_assignee changes
\* only with assign_to_self, to the calling staff user.
C23_OnlyGivenFieldsChange ==
    [][(last'.op = "update_ticket" /\ last'.tid \in TicketIds) =>
          \E t \in tickets, n \in tickets' :
             /\ t.id = last'.tid /\ n.id = last'.tid
             /\ ~last'.ats => n.staff_assignee_id = t.staff_assignee_id
             /\ last'.cm = NoComment => n.staff_comment = t.staff_comment
             /\ n.staff_assignee_id # t.staff_assignee_id =>
                   last'.ats /\ n.staff_assignee_id = last'.uid]_vars

\* A STAFF user sent a status alone for a ticket that is assigned to
\* another STAFF user and has a comment.
C23_Witness ==
    /\ last.op = "update_ticket"
    /\ last.st # NoStatus /\ last.cm = NoComment /\ ~last.ats
    /\ last.uid \in StaffIds
    /\ \E t \in tickets : /\ t.id = last.tid
                          /\ t.staff_assignee_id \notin {Null, last.uid}
                          /\ t.staff_comment # NoComment
\* C24: assign_to_self on an existing ticket returns 1, makes the staff
\* user the ticket's assignee and last modifier, stamps the time, and
\* leaves status, comment, owner and text as they were.
C24_AssignToSelf ==
    [][(last'.op = "assign_to_self" /\ last'.tid \in TicketIds /\ last'.uid \in StaffIds) =>
          /\ last'.out.exc = "none"
          /\ last'.ret = 1
          /\ \E t \in tickets, n \in tickets' :
                /\ t.id = last'.tid /\ n.id = last'.tid
                /\ n.staff_assignee_id = last'.uid
                /\ n.last_modified_by_id = last'.uid
                /\ n.last_modified_at = clock
                /\ n.status = t.status /\ n.staff_comment = t.staff_comment
                /\ n.owner_id = t.owner_id /\ n.text = t.text]_vars

\* A STAFF user called assign_to_self on an existing ticket with no
\* assignee.
C24_Witness ==
    /\ last.op = "assign_to_self"
    /\ last.uid \in StaffIds
    /\ \E t \in tickets : t.id = last.tid /\ t.staff_assignee_id = Null
\* The tickets of the window of the last staff_performance call whose last
\* modifier is k.
ModifiedInWindow(k) ==
    {t \in tickets : /\ t.last_modified_by_id = k
                     /\ InWindow(t.last_modified_at, last.date_from, last.date_to)}

\* C25: every record of a staff_performance result counts, for its staff
\* member, the tickets of the window last modified by that member that are
\* RESOLVED, REJECTED and IN_PROGRESS, and gives the greatest
\* last_modified_at among the member's tickets of the window, null when
\* there is none.
C25_PerformanceCounts ==
    (last.op = "staff_performance") =>
        \A r \in last.items :
           LET mine == ModifiedInWindow(r.staff_id)
           IN /\ r.resolved_count = Cardinality({t \in mine : t.status = "RESOLVED"})
              /\ r.rejected_count = Cardinality({t \in mine : t.status = "REJECTED"})
              /\ r.in_progress_count = Cardinality({t \in mine : t.status = "IN_PROGRESS"})
              /\ r.last_modified_at_max =
                    IF mine = {} THEN Null
                    ELSE Max({t.last_modified_at : t \in mine})

\* staff_performance was asked for one staff member while a ticket of the
\* window was last modified by another.
C25_Witness ==
    /\ last.op = "staff_performance"
    /\ last.uid \in StaffIds
    /\ \E t \in tickets : /\ t.last_modified_by_id \in StaffIds \ {last.uid}
                          /\ InWindow(t.last_modified_at, last.date_from, last.date_to)
\* C26: tickets are created only by USER callers and changed only by STAFF
\* callers: the create route answers Forbidden to the valid token of a
\* STAFF or ADMIN account and the update route answers Forbidden to the
\* valid token of a USER or ADMIN account, and neither changes a ticket
\* then.
C26_RoleGatedWrites ==
    [][/\ (/\ last'.op = "routed_create"
           /\ last'.sig = "valid"
           /\ last'.uid \in UserIds
           /\ UserById(last'.uid).role # "USER") =>
             /\ last'.out = HTTPException(HTTP_403_FORBIDDEN, "Forbidden")
             /\ tickets' = tickets
       /\ (/\ last'.op = "routed_update"
           /\ last'.uid \in UserIds
           /\ UserById(last'.uid).role # "STAFF") =>
             /\ last'.out = HTTPException(HTTP_403_FORBIDDEN, "Forbidden")
             /\ tickets' = tickets]_vars

\* A USER account sent its valid token to the update route, or a STAFF
\* account sent its valid token to the create route.
C26_Witness ==
    /\ last.uid \in UserIds
    /\ \/ last.op = "routed_update" /\ UserById(last.uid).role = "USER"
       \/ last.op = "routed_create" /\ UserById(last.uid).role = "STAFF"
\* C27: in every state reached through any interleaving of register and
\* create_staff requests, also of two that both passed the exists()
\* pre-check for one email, no two accounts have the same email.
C27_EmailsUnique ==
    \A u \in users, v \in users : u.email = v.email => u = v

\* A create_staff request that had passed the pre-check was rejected by
\* the store because another request had taken its email meanwhile.
C27_Witness ==
    /\ last.op = "create_staff"
    /\ last.p \in Procs
    /\ last.out.exc = "IntegrityError"
    /\ \E u \in users : u.email = last.email

C29_StampNeverDecreases ==
    [][\A t \in tickets :
          \E n \in tickets' : n.id = t.id /\ n.last_modified_at >= t.last_modified_at]_vars

\* Two requests raced on a stamped ticket: request 1 read the clock first
\* and issued its statement last, after request 2 had completed.
C29_Witness ==
    /\ \A p \in Racers : procs[p].pc = "done"
    /\ procs[1].tid = procs[2].tid
    /\ procs[1].now < procs[2].now
    /\ last.p = 1 /\ last.op \in {"update_ticket", "assign_to_self"}
    /\ last.out.exc # "none"
    /\ \E t \in tickets : t.id = procs[1].tid /\ t.last_modified_at # Null
\* C30: in every state reached through create_ticket, update_ticket and
\* assign_to_self calls, a ticket that is not NEW, or has an assignee, or
\* has a staff comment, has a last_modified_at.
C30_StaffTraceIsAudited ==
    \A t \in tickets :
       (t.status # "NEW" \/ t.staff_assignee_id # Null \/ t.staff_comment # NoComment)
          => t.last_modified_at # Null

\* A ticket exists after an update_ticket call that carried a status, a
\* comment and assign_to_self for it.
C30_Witness ==
    /\ last.op = "update_ticket"
    /\ last.tid \in TicketIds
    /\ last.st # NoStatus /\ last.cm # NoComment /\ last.ats
    /\ last.uid # Null
====
